---- MODULE Spec2Model ----
(***************************************************************************)
(* Model of src/flows/prompt-flow.js: promptWithOptions (one browser page  *)
(* shared by the calls made on it) and the verifyApiKey middleware.        *)
(*                                                                         *)
(* Strings are sequences of one-character strings; null and undefined are  *)
(* the value Null.                                                         *)
(***************************************************************************)
EXTENDS Integers, Sequences, FiniteSets, TLC

\* ------------------------------------------------------------------ bounds
MaxLen == 2          \* longest innerText the page serves
MaxLocLen == 5       \* longest page location (path part) the browser reports
MaxParPolls == 2     \* polls explored per call when calls run in parallel

\* ------------------------------------------------------------------ values
Null == <<"null">>
Calls == {1, 2}
NoOwner == 0         \* owner of an article that no call of the model submitted
NoSource == -1       \* no article: nothing was read, or nothing was captured
HistoryId == 0       \* data-testid of the article a resumed thread already shows
UndefinedId == -1    \* ids.pop() of an empty list

SeqsUpTo(A, n) == UNION {[1..k -> A] : k \in 0..n}

TextAlphabet == {" ", "a"}
RawTexts == SeqsUpTo(TextAlphabet, MaxLen)

LocAlphabet == {"/", "c", "-", "x"}
Locations == SeqsUpTo(LocAlphabet, MaxLocLen)
ThreadIds == {Null, <<>>, <<"c">>, <<"x">>}

\* the inputs explored when calls run in parallel
ParLocations == {<<>>, <<"/", "c", "/", "c">>}
ParThreadIds == {Null, <<"c">>}
ParOutputs == {Null, <<"a">>}

EnvUnset == "<unset>"
NodeEnvs == {"development", "Development", "production", EnvUnset}
Keys == {Null, <<>>, <<"k">>, <<"j">>}

\* ------------------------------------------------------- pure helpers
\* el.innerText.trim()
RECURSIVE TrimLeft(_)
TrimLeft(s) == IF s # <<>> /\ Head(s) = " " THEN TrimLeft(Tail(s)) ELSE s

RECURSIVE TrimRight(_)
TrimRight(s) ==
    IF s # <<>> /\ s[Len(s)] = " " THEN TrimRight(SubSeq(s, 1, Len(s) - 1)) ELSE s

Trim(s) == TrimRight(TrimLeft(s))

\* JavaScript truthiness of a string-or-null value
Truthy(v) == v # Null /\ v # <<>>

\* const url = threadId ? `${base}/c/${threadId}` : base   (path part)
NavTarget(threadId) ==
    IF Truthy(threadId) THEN <<"/", "c", "/">> \o threadId ELSE <<>>

\* const POLL_LIMIT = reason ? 600 : 300
PollLimitSame(reason) == 300
PollLimit(reason) == IF reason THEN 600 ELSE 300

\* if (text && text === previous)
IsStableAnyRepeat(text, prev) == text = prev
IsStableAgainstFinal(text, prev) == Truthy(text) /\ text = Null
IsStable(text, prev) == Truthy(text) /\ text = prev

\* finalText = previous || null
FallbackRaw(prev) == prev
Fallback(prev) == IF Truthy(prev) THEN prev ELSE Null

\* the character class [0-9a-f\-]
IsIdChar(ch) == ch \in {"c", "-"}

\* the greedy run [0-9a-f\-]+ starting at position p
RECURSIVE IdRun(_, _)
IdRun(url, p) ==
    IF p <= Len(url) /\ IsIdChar(url[p]) THEN <<url[p]>> \o IdRun(url, p + 1) ELSE <<>>

\* the regular expression tried at position p, then at p + 1, ...
RECURSIVE MatchFrom(_, _)
MatchFrom(url, p) ==
    IF p + 3 > Len(url) THEN Null
    ELSE IF SubSeq(url, p, p + 2) = <<"/", "c", "/">> /\ IsIdChar(url[p + 3])
         THEN IdRun(url, p + 3)
         ELSE MatchFrom(url, p + 1)

\* page.url().match(/\/c\/([0-9a-f\-]+)/); match ? match[1] : null
\* (threadId, the request's option, is in scope there and is not used)
NewThreadIdFromRequest(url, requested) == requested
NewThreadId(url, requested) == MatchFrom(url, 1)

\* const latestId = ids.pop()
LatestFirst(ids) == IF ids = <<>> THEN UndefinedId ELSE ids[1]
Latest(ids) == IF ids = <<>> THEN UndefinedId ELSE ids[Len(ids)]

\* process.env.NODE_ENV === "development"
IsDevelopmentNever(env) == FALSE
IsDevelopment(env) == env = "development"

\* !clientKey || clientKey !== process.env.ERKUT_API_KEY
KeyRejectedMismatchOnly(clientKey, secret) == clientKey # secret
KeyRejectedAlways(clientKey, secret) == TRUE
KeyRejected(clientKey, secret) == ~Truthy(clientKey) \/ clientKey # secret

\* ------------------------------------------------------------------ state
VARIABLES
    \* the page
    articles,      \* <article> elements in document order: [id, owner]
    nextId,        \* data-testid the next submitted turn gets
    location,      \* what page.url() reports
    \* the calls of promptWithOptions on the page
    pc, reason, threadId, latestId, i, previous, finalText, cleaned, result,
    \* history of each call
    nread,         \* samples read so far
    lastSample,    \* the sample read last (Null before the first)
    lastNonEmpty,  \* the last non-empty sample read (Null if none)
    stableAt,      \* index of the first non-empty sample equal to its predecessor
    repeated,      \* some sample equalled its predecessor (empty ones included)
    selOwner,      \* owner of the article the call selected (NoSource before)
    lastOwner,     \* owner of the article the last sample was read from
    captureOwner,  \* owner of the article the captured text was read from
    degraded,      \* the loop ended with nothing stable (until the call returns)
    foreignRead,   \* a sample was read from an article the call did not submit
    overlap,       \* another call was in flight while this one was
    \* the gatekeeper
    nodeEnv, apiKey, req, gate, consulted, nextCalls, resStatus, resBody

pageVars == <<articles, nextId, location>>
callVars == <<pc, reason, threadId, latestId, i, previous, finalText, cleaned, result>>
histVars == <<nread, lastSample, lastNonEmpty, stableAt, repeated,
              selOwner, lastOwner, captureOwner, degraded, foreignRead, overlap>>
gateVars == <<nodeEnv, apiKey, req, gate, consulted, nextCalls, resStatus, resBody>>
vars == <<pageVars, callVars, histVars, gateVars>>

NoBody == [none |-> TRUE]
NoResult == [threadId |-> Null, response |-> Null]
InFlight(c) == pc[c] \notin {"idle", "done", "failed"}

Init ==
    /\ articles = <<>>
    /\ nextId = 1
    /\ location = <<>>
    /\ pc = [c \in Calls |-> "idle"]
    /\ reason = [c \in Calls |-> FALSE]
    /\ threadId = [c \in Calls |-> Null]
    /\ latestId = [c \in Calls |-> UndefinedId]
    /\ i = [c \in Calls |-> 0]
    /\ previous = [c \in Calls |-> <<>>]
    /\ finalText = [c \in Calls |-> Null]
    /\ cleaned = [c \in Calls |-> Null]
    /\ result = [c \in Calls |-> NoResult]
    /\ nread = [c \in Calls |-> 0]
    /\ lastSample = [c \in Calls |-> Null]
    /\ lastNonEmpty = [c \in Calls |-> Null]
    /\ stableAt = [c \in Calls |-> 0]
    /\ repeated = [c \in Calls |-> FALSE]
    /\ selOwner = [c \in Calls |-> NoSource]
    /\ lastOwner = [c \in Calls |-> NoSource]
    /\ captureOwner = [c \in Calls |-> NoSource]
    /\ degraded = [c \in Calls |-> FALSE]
    /\ foreignRead = [c \in Calls |-> FALSE]
    /\ overlap = [c \in Calls |-> FALSE]
    /\ nodeEnv = EnvUnset
    /\ apiKey = Null
    /\ req = Null
    /\ gate = "unconfigured"
    /\ consulted = FALSE
    /\ nextCalls = 0
    /\ resStatus = 0
    /\ resBody = NoBody

\* ------------------------------------------------------- the gatekeeper
\* dotenv.config(): the process environment the middleware will read
Configure ==
    /\ gate = "unconfigured"
    /\ \E env \in NodeEnvs, key \in Keys :
         /\ nodeEnv' = env
         /\ apiKey' = key
    /\ gate' = "ready"
    /\ UNCHANGED <<req, consulted, nextCalls, resStatus, resBody>>
    /\ UNCHANGED <<pageVars, callVars, histVars>>

\* a request reaches the middleware, with or without the ERKUT-API-KEY header
Receive ==
    /\ gate \in {"ready", "handled"}
    /\ \E header \in Keys : req' = header
    /\ gate' = "pending"
    /\ consulted' = FALSE
    /\ nextCalls' = 0
    /\ resStatus' = 0
    /\ resBody' = NoBody
    /\ UNCHANGED <<nodeEnv, apiKey>>
    /\ UNCHANGED <<pageVars, callVars, histVars>>

VerifyApiKey ==
    /\ gate = "pending"
    /\ gate' = "handled"
    /\ IF IsDevelopment(nodeEnv)
       THEN /\ nextCalls' = nextCalls + 1
            /\ UNCHANGED <<consulted, resStatus, resBody>>
       ELSE /\ consulted' = TRUE
            /\ IF KeyRejected(req, apiKey)
               THEN /\ resStatus' = 401
                    /\ resBody' = [error |-> "invalid api key"]
                    /\ UNCHANGED nextCalls
               ELSE /\ nextCalls' = nextCalls + 1
                    /\ UNCHANGED <<resStatus, resBody>>
    /\ UNCHANGED <<nodeEnv, apiKey, req>>
    /\ UNCHANGED <<pageVars, callVars, histVars>>

NextGate == Configure \/ Receive \/ VerifyApiKey
SpecGate == Init /\ [][NextGate]_vars

\* ------------------------------------------------- promptWithOptions
ArticleIds == [k \in 1..Len(articles) |-> articles[k].id]
HasArticle(id) == \E k \in 1..Len(articles) : articles[k].id = id
OwnerOf(id) ==
    IF HasArticle(id)
    THEN (CHOOSE a \in {articles[k] : k \in 1..Len(articles)} : a.id = id).owner
    ELSE NoOwner

\* const { reason, search, threadId } = options; the call is now in flight
InvokeWith(c, reasons, threadIds) ==
    /\ pc[c] = "idle"
    /\ \E r \in reasons, t \in threadIds :
         /\ reason' = [reason EXCEPT ![c] = r]
         /\ threadId' = [threadId EXCEPT ![c] = t]
    /\ pc' = [pc EXCEPT ![c] = "goto"]
    /\ overlap' = [d \in Calls |->
                     IF d = c THEN \E e \in Calls \ {c} : InFlight(e)
                     ELSE overlap[d] \/ InFlight(d)]
    /\ UNCHANGED <<latestId, i, previous, finalText, cleaned, result>>
    /\ UNCHANGED <<nread, lastSample, lastNonEmpty, stableAt, repeated,
                   selOwner, lastOwner, captureOwner, degraded, foreignRead>>
    /\ UNCHANGED <<pageVars, gateVars>>

\* the session's first prompt, made while no other call is in flight
Start(c) ==
    /\ \A d \in Calls : pc[d] = "idle" /\ c <= d
    /\ InvokeWith(c, BOOLEAN, ThreadIds)

\* a prompt on the session, whatever the other calls are doing
InvokePar(c) == InvokeWith(c, {FALSE}, ParThreadIds)

\* await page.goto(url): the page is replaced by the target's document
Navigate(c) ==
    /\ pc[c] = "goto"
    /\ location' = NavTarget(threadId[c])
    /\ articles' = IF Truthy(threadId[c])
                   THEN <<[id |-> HistoryId, owner |-> NoOwner]>>
                   ELSE <<>>
    /\ pc' = [pc EXCEPT ![c] = "prepare"]
    /\ UNCHANGED <<nextId, reason, threadId, latestId, i, previous, finalText,
                   cleaned, result>>
    /\ UNCHANGED <<histVars, gateVars>>

\* mode toggles, then the editor is focused and cleared
Prepare(c) ==
    /\ pc[c] = "prepare"
    /\ \E search \in BOOLEAN : pc' = [pc EXCEPT ![c] = "submit"]
    /\ UNCHANGED <<pageVars, reason, threadId, latestId, i, previous, finalText,
                   cleaned, result>>
    /\ UNCHANGED <<histVars, gateVars>>

\* editor.type(...); editor.press('Enter'): the page adds the turn's article
Submit(c) ==
    /\ pc[c] = "submit"
    /\ articles' = Append(articles, [id |-> nextId, owner |-> c])
    /\ nextId' = nextId + 1
    /\ pc' = [pc EXCEPT ![c] = "list"]
    /\ UNCHANGED <<location, reason, threadId, latestId, i, previous, finalText,
                   cleaned, result>>
    /\ UNCHANGED <<histVars, gateVars>>

\* after the 1 s wait: ids = all articles' testids; latestId = ids.pop()
List(c) ==
    /\ pc[c] = "list"
    /\ latestId' = [latestId EXCEPT ![c] = Latest(ArticleIds)]
    /\ selOwner' = [selOwner EXCEPT ![c] = OwnerOf(Latest(ArticleIds))]
    /\ pc' = [pc EXCEPT ![c] = "waitmd"]
    /\ UNCHANGED <<pageVars, reason, threadId, i, previous, finalText, cleaned, result>>
    /\ UNCHANGED <<nread, lastSample, lastNonEmpty, stableAt, repeated,
                   lastOwner, captureOwner, degraded, foreignRead, overlap>>
    /\ UNCHANGED gateVars

\* await page.waitForSelector(mdSelector, 30 s): throws when it never appears
WaitMd(c) ==
    /\ pc[c] = "waitmd"
    /\ \E appears \in BOOLEAN :
         pc' = [pc EXCEPT ![c] =
                  IF appears /\ HasArticle(latestId[c]) THEN "poll" ELSE "failed"]
    /\ UNCHANGED <<pageVars, reason, threadId, latestId, i, previous, finalText,
                   cleaned, result>>
    /\ UNCHANGED <<histVars, gateVars>>

\* one iteration of the for loop, with the i++ and loop test that follow it
Poll(c) ==
    /\ pc[c] = "poll"
    /\ i[c] < PollLimit(reason[c])
    /\ \E present \in BOOLEAN, raw \in RawTexts :
         LET handle == present /\ HasArticle(latestId[c])
             text == IF handle THEN Trim(raw) ELSE <<>>
             source == IF handle THEN OwnerOf(latestId[c]) ELSE NoSource
         IN  /\ IF IsStable(text, previous[c])
                THEN /\ finalText' = [finalText EXCEPT ![c] = text]
                     /\ pc' = [pc EXCEPT ![c] = "after"]
                     /\ i' = [i EXCEPT ![c] = 0]
                     /\ UNCHANGED previous
                ELSE /\ previous' = [previous EXCEPT ![c] = text]
                     /\ i' = [i EXCEPT ![c] =
                                IF i[c] + 1 < PollLimit(reason[c]) THEN i[c] + 1 ELSE 0]
                     /\ pc' = [pc EXCEPT ![c] =
                                 IF i[c] + 1 < PollLimit(reason[c]) THEN "poll" ELSE "after"]
                     /\ UNCHANGED finalText
             /\ nread' = [nread EXCEPT ![c] = @ + 1]
             /\ lastSample' = [lastSample EXCEPT ![c] = text]
             /\ lastNonEmpty' = [lastNonEmpty EXCEPT ![c] =
                                   IF text # <<>> THEN text ELSE @]
             /\ stableAt' = [stableAt EXCEPT ![c] =
                               IF @ = 0 /\ text # <<>> /\ text = lastSample[c]
                               THEN nread[c] + 1 ELSE @]
             /\ repeated' = [repeated EXCEPT ![c] = @ \/ text = lastSample[c]]
             /\ lastOwner' = [lastOwner EXCEPT ![c] = source]
             /\ foreignRead' = [foreignRead EXCEPT ![c] =
                                  @ \/ (handle /\ source # c)]
    /\ UNCHANGED <<pageVars, reason, threadId, latestId, cleaned, result>>
    /\ UNCHANGED <<selOwner, captureOwner, degraded, overlap, gateVars>>

\* the same iteration, explored for the first MaxParPolls polls of a call
PollPar(c) ==
    /\ nread[c] < MaxParPolls
    /\ Poll(c)

\* if (finalText === null) finalText = previous || null; then
\* cleaned = converter.convert(finalText), whatever the library makes of it
SettleWith(c, outputs) ==
    /\ pc[c] = "after"
    /\ finalText' = [finalText EXCEPT ![c] =
                       IF @ = Null THEN Fallback(previous[c]) ELSE @]
    /\ \E out \in outputs : cleaned' = [cleaned EXCEPT ![c] = out]
    /\ pc' = [pc EXCEPT ![c] = "resolve"]
    /\ captureOwner' = [captureOwner EXCEPT ![c] =
                          IF finalText'[c] # Null THEN lastOwner[c] ELSE NoSource]
    /\ degraded' = [degraded EXCEPT ![c] = finalText[c] = Null]
    /\ nread' = [nread EXCEPT ![c] = 0]
    /\ stableAt' = [stableAt EXCEPT ![c] = 0]
    /\ lastSample' = [lastSample EXCEPT ![c] = Null]
    /\ lastNonEmpty' = [lastNonEmpty EXCEPT ![c] = Null]
    /\ repeated' = [repeated EXCEPT ![c] = FALSE]
    /\ lastOwner' = [lastOwner EXCEPT ![c] = NoSource]
    /\ UNCHANGED <<pageVars, reason, threadId, latestId, i, previous, result>>
    /\ UNCHANGED <<selOwner, foreignRead, overlap, gateVars>>

Settle(c) == SettleWith(c, {Null} \cup {Trim(r) : r \in RawTexts})
SettlePar(c) == SettleWith(c, ParOutputs)

\* page.url() is read where the site has left it; the call returns
\* { threadId: newThreadId, response: cleaned } and its locals go out of scope
ResolveIn(c, locs) ==
    /\ pc[c] = "resolve"
    /\ \E loc \in locs :
         /\ location' = loc
         /\ result' = [result EXCEPT ![c] =
                         [threadId |-> NewThreadId(loc, threadId[c]),
                          response |-> cleaned[c]]]
    /\ pc' = [pc EXCEPT ![c] = "done"]
    /\ previous' = [previous EXCEPT ![c] = <<>>]
    /\ finalText' = [finalText EXCEPT ![c] = Null]
    /\ cleaned' = [cleaned EXCEPT ![c] = Null]
    /\ reason' = [reason EXCEPT ![c] = FALSE]
    /\ latestId' = [latestId EXCEPT ![c] = UndefinedId]
    /\ degraded' = [degraded EXCEPT ![c] = FALSE]
    /\ UNCHANGED <<articles, nextId, threadId, i>>
    /\ UNCHANGED <<nread, lastSample, lastNonEmpty, stableAt, repeated,
                   selOwner, lastOwner, captureOwner, foreignRead, overlap>>
    /\ UNCHANGED gateVars

Resolve(c) == ResolveIn(c, Locations)
ResolvePar(c) == ResolveIn(c, ParLocations)

Next ==
    \E c \in Calls :
        \/ Start(c)
        \/ Navigate(c)
        \/ Prepare(c)
        \/ Submit(c)
        \/ List(c)
        \/ WaitMd(c)
        \/ Poll(c)
        \/ Settle(c)
        \/ Resolve(c)

Spec == Init /\ [][Next]_vars

NextPar ==
    \E c \in Calls :
        \/ InvokePar(c)
        \/ Navigate(c)
        \/ Prepare(c)
        \/ Submit(c)
        \/ List(c)
        \/ WaitMd(c)
        \/ PollPar(c)
        \/ SettlePar(c)
        \/ ResolvePar(c)

SpecPar == Init /\ [][NextPar]_vars

\* ------------------------------------------------------------ properties
Settles(c) == pc[c] = "after" /\ pc'[c] = "resolve"

\* C1: the loop stops at the first non-empty sample that equals the sample
\* before it: that sample is the last one read, it is at least the second and
\* within the budget, and it is the stabilized text (the success outcome).
C1_StopsAtFirstRepeat ==
    \A c \in Calls :
        stableAt[c] # 0 =>
            /\ pc[c] = "after"
            /\ nread[c] = stableAt[c]
            /\ stableAt[c] >= 2
            /\ stableAt[c] <= (IF reason[c] THEN 600 ELSE 300)
            /\ finalText[c] # Null
            /\ finalText[c] = lastSample[c]

\* samples "", "a", "aa", "aa" (or any other three before the repeat)
C1_Witness ==
    \E c \in Calls :
        /\ pc[c] = "after"
        /\ stableAt[c] = 4
        /\ finalText[c] = <<"a", "a">>

\* C2 as claimed: when no sample equals the one before it, the loop runs the
\* whole budget and the captured text is the last non-empty sample, null only
\* when every sample was empty.
C2_LastNonEmptySample ==
    [][\A c \in Calls :
          (Settles(c) /\ ~repeated[c]) =>
              /\ nread[c] = (IF reason[c] THEN 600 ELSE 300)
              /\ finalText'[c] = lastNonEmpty[c]]_vars

\* C3: an empty sample never stabilizes: a loop that stops early holds a
\* non-empty text, and a run of empty samples only takes the whole budget and
\* captures null.
C3_EmptyNeverStable ==
    /\ [](\A c \in Calls :
            /\ (pc[c] = "after" /\ nread[c] < (IF reason[c] THEN 600 ELSE 300))
                   => (finalText[c] # Null /\ finalText[c] # <<>>)
            /\ (pc[c] = "after" /\ lastNonEmpty[c] = Null)
                   => (finalText[c] = Null
                       /\ nread[c] = (IF reason[c] THEN 600 ELSE 300)))
    /\ [][\A c \in Calls :
            (Settles(c) /\ lastNonEmpty[c] = Null) => finalText'[c] = Null]_vars

\* 300 samples, every one of them empty
C3_Witness ==
    \E c \in Calls :
        /\ pc[c] = "after"
        /\ ~reason[c]
        /\ nread[c] = 300
        /\ lastNonEmpty[c] = Null
        /\ finalText[c] = Null

C8_BoundedPolling ==
    \A c \in Calls :
        LET budget == IF reason[c] THEN 600 ELSE 300
        IN  /\ 600 > 300
            /\ nread[c] <= budget
            /\ pc[c] = "poll" => (nread[c] < budget /\ i[c] = nread[c])
            /\ (pc[c] = "after" /\ finalText[c] = Null) => nread[c] = budget

C8_Witness ==
    \E c \in Calls :
        /\ pc[c] = "after"
        /\ reason[c]
        /\ nread[c] = 600
        /\ finalText[c] = Null

\* the id of the first "/c/<id>" segment of a location, <id> being what
\* follows up to the next "/"; Null when there is no such segment
SegmentStarts(loc) ==
    {p \in 1..Len(loc) :
        /\ p + 3 <= Len(loc)
        /\ SubSeq(loc, p, p + 2) = <<"/", "c", "/">>
        /\ loc[p + 3] # "/"}
SegmentEnd(loc, p) ==
    CHOOSE q \in p + 3..Len(loc) :
        /\ \A k \in p + 3..q : loc[k] # "/"
        /\ (q = Len(loc) \/ loc[q + 1] = "/")
SegmentId(loc) ==
    IF SegmentStarts(loc) = {} THEN Null
    ELSE LET p == CHOOSE q \in SegmentStarts(loc) : \A r \in SegmentStarts(loc) : q <= r
         IN  SubSeq(loc, p + 3, SegmentEnd(loc, p))

\* C9 as claimed: the returned threadId is the id of the location's
\* "/c/<id>" segment, and null when the location has none.
C9_SegmentId ==
    \A c \in Calls : pc[c] = "done" => result[c].threadId = SegmentId(location)

\* C9 as amended: the returned threadId comes from the location alone: it is
\* the longest run of characters of [0-9a-f-] after the leftmost "/c/" that
\* one such character follows, and null when there is no such "/c/".
HexStarts(loc) ==
    {p \in 1..Len(loc) :
        /\ p + 3 <= Len(loc)
        /\ loc[p] = "/" /\ loc[p + 1] = "c" /\ loc[p + 2] = "/"
        /\ loc[p + 3] \in {"c", "-"}}
C9_ThreadIdFromLocation ==
    \A c \in Calls :
        pc[c] = "done" =>
            LET t == result[c].threadId
                starts == HexStarts(location)
            IN  IF starts = {} THEN t = Null
                ELSE /\ t # Null
                     /\ \E p \in starts :
                          /\ \A r \in starts : p <= r
                          /\ Len(t) >= 1
                          /\ p + 2 + Len(t) <= Len(location)
                          /\ \A k \in 1..Len(t) :
                               t[k] = location[p + 2 + k] /\ t[k] \in {"c", "-"}
                          /\ \/ p + 2 + Len(t) = Len(location)
                             \/ location[p + 3 + Len(t)] \notin {"c", "-"}

\* the request named thread "x"; the location ends up at /c/c-
C9_Witness ==
    \E c \in Calls :
        /\ pc[c] = "done"
        /\ threadId[c] = <<"x">>
        /\ location = <<"/", "c", "/", "c", "-">>
        /\ result[c].threadId = <<"c", "-">>

\* C10: a call that no other call overlapped selects the article its own
\* submission added, reads every sample from it and captures its text from
\* it; overlapping calls can end with the other call's article (the witness).
C10_OwnContainerUnlessOverlap ==
    \A c \in Calls :
        ~overlap[c] =>
            /\ selOwner[c] \in {NoSource, c}
            /\ pc[c] \in {"waitmd", "poll", "after", "resolve", "done"} => selOwner[c] = c
            /\ ~foreignRead[c]
            /\ captureOwner[c] \in {NoSource, c}

C10_Witness ==
    \E c, d \in Calls :
        /\ c # d
        /\ pc[c] = "done"
        /\ overlap[c]
        /\ selOwner[c] = d
        /\ captureOwner[c] = d
        /\ result[c].response # Null

\* C4: outside development mode a request without the header, or with a
\* header that differs from ERKUT_API_KEY, gets 401 {"error": "invalid api
\* key"} and next() is not called, the same for both.
C4_Rejects ==
    (gate = "handled" /\ nodeEnv # "development" /\ (req = Null \/ req # apiKey)) =>
        /\ resStatus = 401
        /\ resBody = [error |-> "invalid api key"]
        /\ nextCalls = 0

C4_Witness ==
    /\ gate = "handled"
    /\ nodeEnv = "production"
    /\ req = <<"j">>
    /\ apiKey = <<"k">>
    /\ resStatus = 401

\* C5 as claimed: outside development mode a header equal to ERKUT_API_KEY,
\* whatever the secret, is admitted: next() once, no response written.
C5_AdmitsEqualHeader ==
    (gate = "handled" /\ nodeEnv # "development" /\ req # Null /\ req = apiKey) =>
        /\ nextCalls = 1
        /\ resStatus = 0
        /\ resBody = NoBody

\* C5 as amended: the same for a non-empty header.
C5_AdmitsNonEmptyEqualHeader ==
    (gate = "handled" /\ nodeEnv # "development"
        /\ req # Null /\ req # <<>> /\ req = apiKey) =>
        /\ nextCalls = 1
        /\ resStatus = 0
        /\ resBody = NoBody

C5_Witness ==
    /\ gate = "handled"
    /\ nodeEnv = "production"
    /\ req = <<"k">>
    /\ apiKey = <<"k">>
    /\ nextCalls = 1

\* C6: in development mode every request is admitted: next() once, header
\* and secret not read, no status or body written.
C6_DevelopmentAdmits ==
    (gate = "handled" /\ nodeEnv = "development") =>
        /\ nextCalls = 1
        /\ ~consulted
        /\ resStatus = 0
        /\ resBody = NoBody

C6_Witness ==
    /\ gate = "handled"
    /\ nodeEnv = "development"
    /\ req = <<"j">>
    /\ apiKey = <<"k">>
    /\ nextCalls = 1

====
